---------------------------- MODULE Spec2Model ----------------------------
(***************************************************************************)
(* A model of forex_system.py: the live trading loop (ForexSystem.trade),   *)
(* the walk-forward test (ForexSystem.walk_forward_test) with the return   *)
(* model, trade count, Sharpe ratio and brute-force search it uses, the    *)
(* cache of derived series (<path>/tmp), calc_ret / calc_trades and the    *)
(* metrics (drawdown, duration, Kelly, Sharpe) called on their own, and    *)
(* the single-window backtest (ForexSystem.backtest).                      *)
(*                                                                         *)
(* Prices of the live loop are integers in units of EPS / 2, so that two   *)
(* quotes one unit apart are within the tolerance and two units apart are  *)
(* not.  Times of the walk-forward test are minutes since `start'.         *)
(***************************************************************************)
EXTENDS Integers, Sequences, FiniteSets, TLC

VARIABLES
    \* ---- ForexSystem.trade: locals of the loop -------------------------
    pc,                 \* position of the control flow inside `while True'
    pre_bid, pre_ask,   \* quote of the last iteration whose tick moved
    pre_history_time,   \* newest-bar timestamp last processed (NoTime = None)
    ticket,             \* ticket of the order the loop holds (0 = none)
    pos,                \* 1 long, -1 short, 0 flat
    bid, ask,           \* quote fetched by the current iteration
    history_time,       \* newest-bar timestamp fetched by the current iteration
    signal,             \* signal[end_row] of the current bar
    spread,             \* allowed spread (trade) / charged spread (backtest)
    ea, mail,           \* notification settings
    \* ---- the environment of the loop -----------------------------------
    feedTime,           \* newest bar the market feed currently serves
    openTrades,         \* tickets open at the order gateway
    \* ---- history of the loop, read by the properties only --------------
    sigRuns,            \* per bar: calls of calc_signal (capped at 2)
    mgmtRuns,           \* per bar: runs of the order management (capped at 2)
    closedThisIter,     \* order_close succeeded in the current iteration
    preKept,            \* pre_bid, pre_ask and pre_history_time are what
                        \* they were at the top of the current iteration
    \* ---- ForexSystem.walk_forward_test: arguments ----------------------
    timeframe,          \* minutes per bar
    in_sample_period,   \* days
    out_of_sample_period,   \* days
    fixed_window,       \* 1 fixed, 0 expanding
    optimization,       \* 1: optimise on every train window
    min_trade,          \* lowest number of trades per year
    start, end,         \* the span, in minutes
    rranges,            \* slice(lo, hi, step) of the one parameter searched
    \* ---- ForexSystem.walk_forward_test: locals -------------------------
    wf_pc,              \* position of the control flow
    i,                  \* iteration index
    start_train, end_train, start_test, end_test,
    parameter,          \* the parameter in use
    report,             \* the rows written for the windows so far
    signal_all,         \* the concatenated out-of-sample signal
    start_all, end_all, \* the bounds of the aggregate
    bound,              \* which of signal_all, start_all, end_all are assigned
    aggregate,          \* the last row of the report (<<>> until computed)
    \* ---- the data the test reads --------------------------------------
    op,                 \* i_open: the open price of every bar of the history
    sigtab,             \* calc_signal: per parameter, the signal of every bar
    \* ---- the cache of derived series and the process that owns it ------
    mode,               \* --mode: "backtest", "trade" or "func"
    environment,        \* self.environment ("None" in a backtest)
    run_pc,             \* position of the process
    tmp_exists,         \* the directory <path>/tmp exists
    tmp,                \* the files of <path>/tmp: file_path -> artifact
    calls,              \* the indicator calls of the run, with what each did
    \* ---- one call of calc_ret and of calc_trades ----------------------
    arg_signal,         \* the signal passed
    arg_start, arg_end, \* the window passed, in minutes
    ret_pc,             \* position of the caller
    cost_out,           \* the local `cost' of calc_ret (bars it is defined at)
    ret_out,            \* the series calc_ret returned
    trades_out,         \* the number calc_trades returned
    \* ---- one call of each of the metrics on a return series -----------
    arg_ret,            \* the returns passed, in halves (-1 is -50%)
    met_pc,             \* position of the caller
    drawdowns_out,      \* calc_drawdowns: <<numerator, denominator>>
    durations_out,      \* calc_durations
    sharpe_out,         \* calc_sharpe: <<S, V>>, or NaN
    kelly_out,          \* calc_kelly: <<numerator, denominator>>, or NaN
    \* ---- ForexSystem.backtest: locals ----------------------------------
    bt_pc,              \* position of the control flow
    Jout,               \* optimize.brute: the objective at every grid point
    evaluated,          \* calc_signal has been called
    bt_report           \* the row of the report (<<>> until written)

loopVars == <<pc, pre_bid, pre_ask, pre_history_time, ticket, pos, bid, ask,
              history_time, signal, ea, mail, feedTime, openTrades,
              sigRuns, mgmtRuns, closedThisIter, preKept>>

wfVars == <<timeframe, in_sample_period, out_of_sample_period, fixed_window,
            optimization, min_trade, start, end, rranges, wf_pc, i,
            start_train, end_train, start_test, end_test, parameter, report,
            signal_all, start_all, end_all, bound, aggregate, op, sigtab>>

cacheVars == <<mode, environment, run_pc, tmp_exists, tmp, calls>>

retVars == <<arg_signal, arg_start, arg_end, ret_pc, cost_out, ret_out,
             trades_out>>

metVars == <<arg_ret, met_pc, drawdowns_out, durations_out, sharpe_out,
             kelly_out>>

btVars == <<bt_pc, Jout, evaluated, bt_report>>

auxVars == <<cacheVars, retVars, metVars, btVars>>

notCacheVars == <<retVars, metVars, btVars, loopVars, spread, wfVars>>

notRetVars == <<cacheVars, metVars, btVars, loopVars, spread, wfVars>>

notMetVars == <<cacheVars, retVars, btVars, loopVars, spread, wfVars>>

notBtVars == <<timeframe, in_sample_period, out_of_sample_period,
               fixed_window, optimization, min_trade, start, end, rranges,
               wf_pc, i, start_train, end_train, start_test, end_test,
               report, signal_all, start_all, end_all, bound, aggregate, op,
               sigtab, spread, cacheVars, retVars, metVars, loopVars>>

vars == <<loopVars, spread, wfVars, auxVars>>

-----------------------------------------------------------------------------
(* Bounds of the model.                                                    *)

MaxBar == 3          \* bars the feed serves: 1..MaxBar
MaxTicket == 2       \* ticket numbers the gateway hands out: 1..MaxTicket
MaxSpread == 1       \* allowed spreads tried: 0..MaxSpread
QuoteSteps == 3      \* quotes tried: MinQuote..MinQuote+QuoteSteps

(* Program constants.                                                      *)

EPS == 2             \* the tolerance 1.0e-5, in price units of EPS / 2
MinQuote == 10       \* a positive quote; pre_bid = pre_ask = 0.0 is far below

NoTime == 0          \* pre_history_time = None
Bars == 1..MaxBar
Quotes == MinQuote..(MinQuote + QuoteSteps)
Signals == {-1, 0, 1}
ExcKinds == {"OandaError", "OtherError"}

Abs(x) == IF x < 0 THEN -x ELSE x
Min(a, b) == IF a < b THEN a ELSE b

\* The walk-forward test is not running (the process runs --mode trade).
WFIdle ==
    /\ timeframe = 0
    /\ in_sample_period = 0
    /\ out_of_sample_period = 0
    /\ fixed_window = 0
    /\ optimization = 0
    /\ min_trade = 0
    /\ start = 0
    /\ end = 0
    /\ rranges = <<>>
    /\ wf_pc = "off"
    /\ i = 0
    /\ start_train = 0
    /\ end_train = 0
    /\ start_test = 0
    /\ end_test = 0
    /\ parameter = 0
    /\ report = <<>>
    /\ signal_all = <<>>
    /\ start_all = 0
    /\ end_all = 0
    /\ bound = {}
    /\ aggregate = <<>>
    /\ op = <<>>
    /\ sigtab = <<>>

\* The trading loop is not running (the process runs --mode backtest).
LoopIdle ==
    /\ pc = "off"
    /\ pre_bid = 0
    /\ pre_ask = 0
    /\ pre_history_time = NoTime
    /\ ticket = 0
    /\ pos = 0
    /\ bid = 0
    /\ ask = 0
    /\ history_time = NoTime
    /\ signal = 0
    /\ ea = 0
    /\ mail = 0
    /\ feedTime = 0
    /\ openTrades = {}
    /\ sigRuns = <<>>
    /\ mgmtRuns = <<>>
    /\ closedThisIter = FALSE
    /\ preKept = TRUE

\* No process is using the cache.
CacheIdle ==
    /\ mode = "none"
    /\ environment = "None"
    /\ run_pc = "off"
    /\ tmp_exists = FALSE
    /\ tmp = <<>>
    /\ calls = <<>>

\* calc_ret and calc_trades are not being called on their own.
RetIdle ==
    /\ arg_signal = <<>>
    /\ arg_start = 0
    /\ arg_end = 0
    /\ ret_pc = "off"
    /\ cost_out = <<>>
    /\ ret_out = <<>>
    /\ trades_out = 0

\* The metrics are not being called on their own.
MetIdle ==
    /\ arg_ret = <<>>
    /\ met_pc = "off"
    /\ drawdowns_out = <<0, 1>>
    /\ durations_out = 0
    /\ sharpe_out = <<0, 1>>
    /\ kelly_out = <<0, 1>>

\* ForexSystem.backtest is not running.
BacktestIdle ==
    /\ bt_pc = "off"
    /\ Jout = <<>>
    /\ evaluated = FALSE
    /\ bt_report = <<>>

-----------------------------------------------------------------------------
(* ForexSystem.trade                                                       *)

\* `except:' with no class catches whatever the try block raises.
CaughtOnlyGateway(e) == e = "OandaError"
Caught(e) == TRUE

\* An exception of kind e leaves the try block.
Raise(e) == pc' = IF Caught(e) THEN "except" ELSE "dead"

\* tick moved: np.abs(bid - pre_bid) >= EPS or np.abs(ask - pre_ask) >= EPS
TickMoved(b, a) == Abs(b - pre_bid) >= EPS \/ Abs(a - pre_ask) >= EPS

\* bid = self.bid(instrument); ask = self.ask(instrument); the tick gate.
GetPrices ==
    /\ pc = "poll"
    /\ \/ \E b \in Quotes, a \in Quotes :
            /\ a >= b
            /\ bid' = b
            /\ ask' = a
            /\ IF TickMoved(b, a)
               THEN /\ pre_bid' = b
                    /\ pre_ask' = a
                    /\ pc' = "history"
               ELSE /\ UNCHANGED <<pre_bid, pre_ask>>
                    /\ pc' = "poll"
       \/ /\ \E e \in ExcKinds : Raise(e)
          /\ UNCHANGED <<bid, ask, pre_bid, pre_ask>>
    /\ closedThisIter' = FALSE
    /\ preKept' = (pre_bid' = pre_bid /\ pre_ask' = pre_ask)
    /\ UNCHANGED <<pre_history_time, ticket, pos, history_time, signal, ea,
                   mail, feedTime, openTrades, sigRuns, mgmtRuns, spread,
                   wfVars, auxVars>>

\* history = get_history(...); history_time = newest candle; the bar gate.
GetHistory ==
    /\ pc = "history"
    /\ \/ \E t \in feedTime..Min(feedTime + 1, MaxBar) :
            /\ feedTime' = t
            /\ history_time' = t
            /\ IF t # pre_history_time
               THEN /\ pre_history_time' = t
                    /\ pc' = "signal"
               ELSE /\ UNCHANGED pre_history_time
                    /\ pc' = "snapshot"
       \/ /\ \E e \in ExcKinds : Raise(e)
          /\ UNCHANGED <<feedTime, history_time, pre_history_time>>
    /\ preKept' = (preKept /\ pre_history_time' = pre_history_time)
    /\ UNCHANGED <<pre_bid, pre_ask, ticket, pos, bid, ask, signal, ea, mail,
                   openTrades, sigRuns, mgmtRuns, closedThisIter, spread,
                   wfVars, auxVars>>

Bump(f, t) == [f EXCEPT ![t] = Min(@ + 1, 2)]

\* signal = calc_signal(parameter, self, symbol, timeframe, position)
CalcSignal ==
    /\ pc = "signal"
    /\ sigRuns' = Bump(sigRuns, history_time)
    /\ \/ \E s \in Signals : signal' = s /\ pc' = "manage"
       \/ (\E e \in ExcKinds : Raise(e)) /\ UNCHANGED signal
    /\ UNCHANGED <<pre_bid, pre_ask, pre_history_time, ticket, pos, bid, ask,
                   history_time, ea, mail, feedTime, openTrades, mgmtRuns,
                   closedThisIter, preKept, spread,
                   wfVars, auxVars>>

\* self.oanda.close_trade(account_id, ticket): the trade leaves the gateway.
order_close_lost(tk, trades) == trades
order_close(tk, trades) == trades \ {tk}

ExitLong == pos = 1 /\ signal # 1
ExitShort == pos = -1 /\ signal # -1

\* The exit is sent whatever ask - bid is.
ExitGatedBySpread == (ExitLong \/ ExitShort) /\ ask - bid <= spread
MustExit == ExitLong \/ ExitShort

\* The close branch: self.order_close(ticket).
SendClose ==
    /\ pc = "manage"
    /\ mgmtRuns' = Bump(mgmtRuns, history_time)
    /\ IF MustExit
       THEN \/ /\ ticket \in openTrades
               /\ openTrades' = order_close(ticket, openTrades)
               /\ closedThisIter' = TRUE
               /\ pc' = "notify_exit"
            \/ /\ \E e \in ExcKinds : Raise(e)
               /\ UNCHANGED <<openTrades, closedThisIter>>
       ELSE /\ pc' = "open_check"
            /\ UNCHANGED <<openTrades, closedThisIter>>
    /\ UNCHANGED <<pre_bid, pre_ask, pre_history_time, ticket, pos, bid, ask,
                   history_time, signal, ea, mail, feedTime, sigRuns, preKept,
                   spread, wfVars, auxVars>>

\* ticket = 0; pos = 0
ClearPosOnly == pos' = 0 /\ UNCHANGED ticket
ClearState == ticket' = 0 /\ pos' = 0

\* The EA file and the mail of an exit, then ticket = 0; pos = 0.
NotifyExit ==
    /\ pc = "notify_exit"
    /\ \/ /\ ClearState
          /\ pc' = "open_check"
       \/ /\ ea = 1 \/ mail = 1
          /\ \E e \in ExcKinds : Raise(e)
          /\ UNCHANGED <<ticket, pos>>
    /\ UNCHANGED <<pre_bid, pre_ask, pre_history_time, bid, ask, history_time,
                   signal, ea, mail, feedTime, openTrades, sigRuns, mgmtRuns,
                   closedThisIter, preKept, spread,
                   wfVars, auxVars>>

\* if (pos == 0 and ask - bid <= spread)
CanOpenAnySpread == pos = 0
CanOpen == pos = 0 /\ ask - bid <= spread

\* ticket = response['tradeOpened']['id']: a ticket not open at the gateway.
FreshTickets == (1..MaxTicket) \ openTrades

\* The open branch: self.order_send(symbol, lots, 'buy' | 'sell').
SendOpen ==
    /\ pc = "open_check"
    /\ IF CanOpen /\ signal # 0
       THEN \/ \E id \in FreshTickets :
                 /\ \A other \in FreshTickets : id <= other
                 /\ openTrades' = openTrades \cup {id}
                 /\ ticket' = id
                 /\ pos' = signal
                 /\ pc' = "notify_entry"
            \/ /\ \E e \in ExcKinds : Raise(e)
               /\ UNCHANGED <<openTrades, ticket, pos>>
       ELSE /\ pc' = "snapshot"
            /\ UNCHANGED <<openTrades, ticket, pos>>
    /\ UNCHANGED <<pre_bid, pre_ask, pre_history_time, bid, ask, history_time,
                   signal, ea, mail, feedTime, sigRuns, mgmtRuns,
                   closedThisIter, preKept, spread,
                   wfVars, auxVars>>

\* The EA file and the mail of an entry.
NotifyEntry ==
    /\ pc = "notify_entry"
    /\ \/ pc' = "snapshot"
       \/ /\ ea = 1 \/ mail = 1
          /\ \E e \in ExcKinds : Raise(e)
    /\ UNCHANGED <<pre_bid, pre_ask, pre_history_time, ticket, pos, bid, ask,
                   history_time, signal, ea, mail, feedTime, openTrades,
                   sigRuns, mgmtRuns, closedThisIter, preKept, spread,
                   wfVars, auxVars>>

\* get_positions, orders_total and the printed position line.
Snapshot ==
    /\ pc = "snapshot"
    /\ \/ pc' = "poll" /\ preKept' = TRUE
       \/ (\E e \in ExcKinds : Raise(e)) /\ UNCHANGED preKept
    /\ UNCHANGED <<pre_bid, pre_ask, pre_history_time, ticket, pos, bid, ask,
                   history_time, signal, ea, mail, feedTime, openTrades,
                   sigRuns, mgmtRuns, closedThisIter, spread, wfVars, auxVars>>

\* except: print(...); time.sleep(1); then the next iteration.
ExceptHandler ==
    /\ pc = "except"
    /\ pc' = "poll"
    /\ preKept' = TRUE
    /\ UNCHANGED <<pre_bid, pre_ask, pre_history_time, ticket, pos, bid, ask,
                   history_time, signal, ea, mail, feedTime, openTrades,
                   sigRuns, mgmtRuns, closedThisIter, spread, wfVars, auxVars>>

\* The state before `while True'.
LoopInit ==
    /\ pc = "poll"
    /\ pre_bid = 0
    /\ pre_ask = 0
    /\ pre_history_time = NoTime
    /\ ticket = 0
    /\ pos = 0
    /\ bid = 0
    /\ ask = 0
    /\ history_time = NoTime
    /\ signal = 0
    /\ spread \in 0..MaxSpread
    /\ ea \in {0, 1}
    /\ mail \in {0, 1}
    /\ feedTime = 1
    /\ openTrades = {}
    /\ sigRuns = [t \in Bars |-> 0]
    /\ mgmtRuns = [t \in Bars |-> 0]
    /\ closedThisIter = FALSE
    /\ preKept = TRUE
    /\ WFIdle
    /\ CacheIdle
    /\ RetIdle
    /\ MetIdle
    /\ BacktestIdle

LoopNext ==
    \/ GetPrices
    \/ GetHistory
    \/ CalcSignal
    \/ SendClose
    \/ NotifyExit
    \/ SendOpen
    \/ NotifyEntry
    \/ Snapshot
    \/ ExceptHandler

SpecLoop == LoopInit /\ [][LoopNext]_vars

-----------------------------------------------------------------------------
(* The series the backtest computes on.  A series is a function from the   *)
(* bars it holds (a contiguous range of bar numbers) to values; bar k      *)
(* opens at start + k * timeframe.  Returns are kept as integers: every    *)
(* return is multiplied by PriceScale, which every price divides.          *)

MinutesPerDay == 24 * 60
DaysPerYear == 365
PriceScale == 2 * 3
Prices == {2, 3}

Days(d) == d * MinutesPerDay
BarTime(k) == start + k * timeframe

\* series[s:e]: the bars of a series whose time lies in [s, e].
Slice(series, s, e) ==
    [k \in {b \in DOMAIN series : s <= BarTime(b) /\ BarTime(b) <= e}
        |-> series[k]]

RECURSIVE SumOver(_, _)
SumOver(f, K) ==
    IF K = {} THEN 0
    ELSE LET k == CHOOSE x \in K : \A y \in K : x <= y
         IN  f[k] + SumOver(f, K \ {k})

\* calc_signal(parameter, fs, symbol, timeframe, position, start, end, ...):
\* the signal of the strategy for this parameter, cut to [start, end].
calc_signal(p, s, e) == Slice(sigtab[p], s, e)

\* temp1 + temp2 of calc_ret and calc_trades at bar k: the units added to a
\* long or to a short position; signal.shift(1) is missing at the first bar.
TurnoverOfAnyChange(sig, k) == Abs(sig[k] - sig[k - 1])
Turnover(sig, k) ==
    (IF sig[k] > 0 /\ sig[k] > sig[k - 1] THEN sig[k] - sig[k - 1] ELSE 0)
    + (IF sig[k] < 0 /\ sig[k] < sig[k - 1] THEN sig[k - 1] - sig[k] ELSE 0)

\* op.shift(-1) at bar k.
NextOpen(o, k) == o[k + 1]
HasNextOpen(o, k) == (k + 1) \in DOMAIN o

\* cost = temp1 + temp2 of calc_ret at a bar that has a previous signal.
cost(sig, k) == spread * Turnover(sig, k)

\* (op.shift(-1) - op) * signal - cost at bar k.
Numerator(o, sig, k) == (NextOpen(o, k) - o[k]) * sig[k] - cost(sig, k)

\* What the division of calc_ret yields at bar k: NaN where the signal, the
\* previous signal or the next open is missing and for 0 / 0, plus or minus
\* infinity for x / 0, a finite number otherwise.
RawKind(o, sig, k) ==
    IF k \notin DOMAIN sig \/ (k - 1) \notin DOMAIN sig \/ ~HasNextOpen(o, k)
    THEN "nan"
    ELSE IF o[k] # 0 THEN "finite"
    ELSE IF Numerator(o, sig, k) = 0 THEN "nan"
    ELSE "inf"

\* ret.fillna(0.0) and ret[(ret==float('inf')) | (ret==float('-inf'))] = 0.0
ReplacedNaNOnly(kind) == kind = "nan"
Replaced(kind) == kind \in {"nan", "inf"}

\* A value that stands for a non-finite float; every finite return of the
\* model is far below it.
Infinity == 1000000

\* calc_ret at bar k, times PriceScale.
RetAt(o, sig, k) ==
    LET kind == RawKind(o, sig, k)
    IN  IF kind = "finite"
        THEN Numerator(o, sig, k) * (PriceScale \div o[k])
        ELSE IF Replaced(kind) THEN 0
        ELSE Infinity

\* ret = calc_ret(symbol, timeframe, signal, spread, start, end)
calc_ret(o, sig, s, e) ==
    [k \in {b \in DOMAIN o : s <= BarTime(b) /\ BarTime(b) <= e}
        |-> RetAt(o, sig, k)]

\* trades = calc_trades(signal, start, end)
calc_trades_first_bar_enters(sig, s, e) ==
    LET trade == [k \in DOMAIN sig |->
                     IF (k - 1) \notin DOMAIN sig THEN Abs(sig[k])
                     ELSE Turnover(sig, k)]
    IN  SumOver(trade, DOMAIN Slice(trade, s, e))
calc_trades_whole_series(sig, s, e) ==
    LET trade == [k \in DOMAIN sig |->
                     IF (k - 1) \notin DOMAIN sig THEN 0 ELSE Turnover(sig, k)]
    IN  SumOver(trade, DOMAIN trade)
calc_trades(sig, s, e) ==
    LET trade == [k \in DOMAIN sig |->
                     IF (k - 1) \notin DOMAIN sig THEN 0 ELSE Turnover(sig, k)]
    IN  SumOver(trade, DOMAIN Slice(trade, s, e))

\* years = (end - start).total_seconds() / 60 / 60 / 24 / 365 is zero.
ZeroYears(s, e) == e = s

\* A float that is not a number, where a Sharpe ratio is expected.
NaN == <<0, 0>>

\* calc_sharpe: sqrt(bars / years) * mean / std, which is
\* sqrt((bars - 1) / years) * S / sqrt(V) with S the sum of the returns and
\* V = bars * (sum of squares) - S * S.  The value is kept as <<S, V>>, and as
\* <<0, 1>> when std < EPS; within the bounds V > 0 implies std >= EPS.
\* ret.std() of fewer than two returns is NaN, np.abs(NaN) < EPS is False
\* and the quotient is NaN.
calc_sharpe(ret) ==
    LET n == Cardinality(DOMAIN ret)
        S == SumOver(ret, DOMAIN ret)
        Q == SumOver([k \in DOMAIN ret |-> ret[k] * ret[k]], DOMAIN ret)
        V == n * Q - S * S
    IN  IF n < 2 THEN NaN
        ELSE IF V = 0 THEN <<0, 1>>
        ELSE <<S, V>>

\* a / b < c / d for naturals with b, d > 0, by the continued fractions of
\* the two (no product is formed).
RECURSIVE FracLess(_, _, _, _)
FracLess(a, b, c, d) ==
    IF a \div b # c \div d THEN a \div b < c \div d
    ELSE IF c % d = 0 THEN FALSE
    ELSE IF a % b = 0 THEN TRUE
    ELSE FracLess(d, c % d, b, a % b)

\* x < y for two Sharpe ratios of one window: S / sqrt(V) compared by sign
\* and by S * S / V; every comparison with NaN is False.
SharpeLess(x, y) ==
    IF x = NaN \/ y = NaN THEN FALSE
    ELSE IF x[1] < 0 /\ y[1] >= 0 THEN TRUE
    ELSE IF x[1] >= 0 /\ y[1] < 0 THEN FALSE
    ELSE IF x[1] >= 0 THEN FracLess(x[1] * x[1], x[2], y[1] * y[1], y[2])
    ELSE FracLess(y[1] * y[1], y[2], x[1] * x[1], x[2])

\* trades / years >= min_trade, with years = (e - s) / 60 / 24 / 365 minutes;
\* the window is not empty in time (e # s).
FloorMetOnTrades(trades, s, e) == trades >= min_trade
FloorMet(trades, s, e) ==
    IF e > s
    THEN trades * MinutesPerDay * DaysPerYear >= min_trade * (e - s)
    ELSE trades * MinutesPerDay * DaysPerYear <= min_trade * (e - s)

\* calc_performance with optimization == 1: the fitness (its negative is
\* returned and minimised).
Fitness(o, p, s, e) ==
    LET sig == calc_signal(p, s, e)
        ret == calc_ret(o, sig, s, e)
        trades == calc_trades(sig, s, e)
    IN  IF FloorMet(trades, s, e) THEN calc_sharpe(ret) ELSE <<0, 1>>

\* -x for a Sharpe ratio x.
Neg(x) == <<-x[1], x[2]>>

\* The grid of slice(lo, hi, step): lo, lo + step, ... below hi.
Grid(rr) ==
    LET n == (rr[2] - rr[1] + rr[3] - 1) \div rr[3]
    IN  [j \in 1..n |-> rr[1] + (j - 1) * rr[3]]

\* optimize.brute(calc_performance, rranges, args=(..., s, e, ...),
\* finish=None): the objective, -fitness, at every point of the grid.
Objective(o, rr, s, e) ==
    [j \in DOMAIN Grid(rr) |-> Neg(Fitness(o, Grid(rr)[j], s, e))]

\* argmin of the objective: the first NaN if there is one, else the first
\* point of the least value.
argmin_last(J) ==
    CHOOSE j \in DOMAIN J :
        /\ \A m \in DOMAIN J : ~SharpeLess(J[m], J[j])
        /\ \A m \in DOMAIN J : m > j => SharpeLess(J[j], J[m])
argmin(J) ==
    IF \E j \in DOMAIN J : J[j] = NaN
    THEN CHOOSE j \in DOMAIN J :
             J[j] = NaN /\ \A m \in 1..(j - 1) : J[m] # NaN
    ELSE CHOOSE j \in DOMAIN J :
             /\ \A m \in DOMAIN J : ~SharpeLess(J[m], J[j])
             /\ \A m \in 1..(j - 1) : SharpeLess(J[j], J[m])

\* The grid point brute returns.
brute(o, rr, s, e) == Grid(rr)[argmin(Objective(o, rr, s, e))]

-----------------------------------------------------------------------------
(* ForexSystem.walk_forward_test                                           *)

\* The window of iteration n with the train window of the expanding mode
\* sliding as in the fixed mode.
WindowAlwaysSlides(n) ==
    LET st == start + Days(out_of_sample_period * n)
        et == IF fixed_window = 1
              THEN st + Days(in_sample_period) - timeframe
              ELSE st + Days(out_of_sample_period * n)
                      + Days(in_sample_period) - timeframe
        ss == et + timeframe
    IN  [start_train |-> st, end_train |-> et, start_test |-> ss,
         end_test |-> ss + Days(out_of_sample_period) - timeframe]

\* The window of iteration n with the test window glued to the next one,
\* as if `- timedelta(minutes=timeframe)' were missing from end_test.
WindowEndOnNextStart(n) ==
    LET st == IF fixed_window = 1
              THEN start + Days(out_of_sample_period * n)
              ELSE start
        et == IF fixed_window = 1
              THEN st + Days(in_sample_period) - timeframe
              ELSE st + Days(out_of_sample_period * n)
                      + Days(in_sample_period) - timeframe
        ss == et + timeframe
    IN  [start_train |-> st, end_train |-> et, start_test |-> ss,
         end_test |-> ss + Days(out_of_sample_period)]

\* The window of iteration n sliding by the in-sample period.
WindowSlideInSample(n) ==
    LET st == IF fixed_window = 1
              THEN start + Days(in_sample_period * n)
              ELSE start
        et == IF fixed_window = 1
              THEN st + Days(in_sample_period) - timeframe
              ELSE st + Days(in_sample_period * n)
                      + Days(in_sample_period) - timeframe
        ss == et + timeframe
    IN  [start_train |-> st, end_train |-> et, start_test |-> ss,
         end_test |-> ss + Days(out_of_sample_period) - timeframe]

\* The window of iteration n.
Window(n) ==
    LET st == IF fixed_window = 1
              THEN start + Days(out_of_sample_period * n)
              ELSE start
        et == IF fixed_window = 1
              THEN st + Days(in_sample_period) - timeframe
              ELSE st + Days(out_of_sample_period * n)
                      + Days(in_sample_period) - timeframe
        ss == et + timeframe
    IN  [start_train |-> st, end_train |-> et, start_test |-> ss,
         end_test |-> ss + Days(out_of_sample_period) - timeframe]

\* if end_test > end: break
PastEndByStart(w) == w.start_test > end
PastEnd(w) == w.end_test > end

\* The top of `while True': the window of iteration i and the break.
ComputeWindow ==
    /\ wf_pc = "window"
    /\ LET w == Window(i)
       IN  /\ start_train' = w.start_train
           /\ end_train' = w.end_train
           /\ start_test' = w.start_test
           /\ end_test' = w.end_test
           /\ wf_pc' = IF PastEnd(w) THEN "aggregate"
                       ELSE IF optimization = 1 THEN "optimize"
                       ELSE "evaluate"
    /\ UNCHANGED <<timeframe, in_sample_period, out_of_sample_period,
                   fixed_window, optimization, min_trade, start, end, rranges,
                   i, parameter, report, signal_all, start_all, end_all,
                   bound, aggregate, op, sigtab, spread, loopVars, auxVars>>

\* The end of the window the parameters are searched on.
OptimizeEndIsTestEnd == end_test
OptimizeEnd == end_train

\* if optimization == 1: parameter = optimize.brute(...) on the train window.
Optimize ==
    /\ wf_pc = "optimize"
    /\ IF ZeroYears(start_train, OptimizeEnd)
       THEN \* calc_sharpe: bars / years raises ZeroDivisionError
            /\ wf_pc' = "ZeroDivisionError"
            /\ UNCHANGED parameter
       ELSE /\ parameter' = brute(op, rranges, start_train, OptimizeEnd)
            /\ wf_pc' = "evaluate"
    /\ UNCHANGED <<timeframe, in_sample_period, out_of_sample_period,
                   fixed_window, optimization, min_trade, start, end, rranges,
                   i, start_train, end_train, start_test, end_test, report,
                   signal_all, start_all, end_all, bound, aggregate, op,
                   sigtab, spread, loopVars, auxVars>>

\* calc_performance on the test window, the row of the report, the
\* concatenation of the signal and i = i + 1.
Evaluate ==
    /\ wf_pc = "evaluate"
    /\ IF ZeroYears(start_test, end_test)
       THEN \* calc_sharpe: bars / years raises ZeroDivisionError
            /\ wf_pc' = "ZeroDivisionError"
            /\ UNCHANGED <<report, signal_all, start_all, end_all, bound, i>>
       ELSE LET sig == calc_signal(parameter, start_test, end_test)
                ret == calc_ret(op, sig, start_test, end_test)
            IN  /\ report' = Append(report,
                       [start_train |-> start_train, end_train |-> end_train,
                        start_test |-> start_test, end_test |-> end_test,
                        trades |-> calc_trades(sig, start_test, end_test),
                        sharpe |-> calc_sharpe(ret),
                        parameter |-> parameter])
                /\ IF i = 0
                   THEN /\ signal_all' = Slice(sig, start_test, end_test)
                        /\ start_all' = start_test
                        /\ bound' = bound \cup {"signal_all", "start_all"}
                        /\ UNCHANGED end_all
                   ELSE /\ signal_all' =
                               Slice(sig, start_test, end_test) @@ signal_all
                        /\ end_all' = end_test
                        /\ bound' = bound \cup {"end_all"}
                        /\ UNCHANGED start_all
                /\ i' = i + 1
                /\ wf_pc' = "window"
    /\ UNCHANGED <<timeframe, in_sample_period, out_of_sample_period,
                   fixed_window, optimization, min_trade, start, end, rranges,
                   start_train, end_train, start_test, end_test, parameter,
                   aggregate, op, sigtab, spread, loopVars, auxVars>>

\* After the loop: the performance of signal_all over [start_all, end_all].
Aggregate ==
    /\ wf_pc = "aggregate"
    /\ IF {"signal_all", "start_all", "end_all"} \subseteq bound
       THEN LET ret_all == calc_ret(op, signal_all, start_all, end_all)
            IN  /\ aggregate' =
                       [start_test |-> start_all, end_test |-> end_all,
                        trades |-> calc_trades(signal_all, start_all, end_all),
                        sharpe |-> calc_sharpe(ret_all)]
                /\ wf_pc' = "done"
       ELSE \* a local variable is read before it was assigned
            /\ wf_pc' = "UnboundLocalError"
            /\ UNCHANGED aggregate
    /\ UNCHANGED <<timeframe, in_sample_period, out_of_sample_period,
                   fixed_window, optimization, min_trade, start, end, rranges,
                   i, start_train, end_train, start_test, end_test, parameter,
                   report, signal_all, start_all, end_all, bound, op, sigtab,
                   spread, loopVars, auxVars>>

WFNext ==
    \/ ComputeWindow
    \/ Optimize
    \/ Evaluate
    \/ Aggregate

\* The locals before `while True'.
WFLocalsInit ==
    /\ wf_pc = "window"
    /\ i = 0
    /\ start_train = 0
    /\ end_train = 0
    /\ start_test = 0
    /\ end_test = start
    /\ report = <<>>
    /\ signal_all = <<>>
    /\ start_all = 0
    /\ end_all = 0
    /\ bound = {}
    /\ aggregate = <<>>

-----------------------------------------------------------------------------
(* The runs checked.                                                       *)

MaxInSample == 3        \* in-sample periods tried: 1..MaxInSample days
MaxOutOfSample == 2     \* out-of-sample periods tried: 1..MaxOutOfSample
MaxSpanDays == 8        \* spans tried: 0..MaxSpanDays days
DataSpanDays == 6       \* the span of the runs over every price series
DefaultMinTrade == 260

Timeframes == {240, 1440}

\* The signals of the strategy, per parameter and bar.
SignalRows(lastBar) ==
    { [k \in 0..lastBar |-> 1],
      [k \in 0..lastBar |-> -1],
      [k \in 0..lastBar |-> IF k % 2 = 0 THEN 1 ELSE 0],
      [k \in 0..lastBar |-> IF k % 3 = 0 THEN -1 ELSE 1] }

\* PARAMETER and RRANGES of the strategy: one parameter, two grid points.
StrategyInit ==
    /\ rranges = <<1, 3, 1>>
    /\ parameter = 1

\* Runs over one price series and one strategy, for many windows.
WFInit ==
    /\ LoopIdle
    /\ CacheIdle
    /\ RetIdle
    /\ MetIdle
    /\ BacktestIdle
    /\ StrategyInit
    /\ timeframe \in Timeframes
    /\ \E c \in ([is : 1..MaxInSample, oos : 1..MaxOutOfSample,
                  span : 0..MaxSpanDays]
                 \cup {[is |-> 10, oos |-> 5, span |-> 20]}) :
           /\ in_sample_period = c.is
           /\ out_of_sample_period = c.oos
           /\ start = 0
           /\ end = Days(c.span)
    /\ fixed_window \in {0, 1}
    /\ optimization \in {0, 1}
    /\ min_trade \in {0, DefaultMinTrade}
    /\ spread \in 0..MaxSpread
    /\ op = [k \in 0..(end \div timeframe) |->
                IF (k * k + k \div 3) % 3 = 0 THEN 2 ELSE 3]
    /\ sigtab = [p \in {1, 2} |->
                    [k \in 0..(end \div timeframe) |->
                        IF p = 1
                        THEN (IF k % 2 = 0 THEN 1 ELSE 0)
                        ELSE (IF k % 3 = 0 THEN -1 ELSE 1)]]
    /\ WFLocalsInit

SpecWF == WFInit /\ [][WFNext]_vars

\* A statement of walk_forward_test is executed: WFNext is enabled at
\* exactly these positions, and every step of it moves wf_pc.
WFPositions == {"window", "optimize", "evaluate", "aggregate"}
WFStep ==
    /\ wf_pc \in WFPositions
    /\ wf_pc' \in (WFPositions
                    \cup {"done", "ZeroDivisionError", "UnboundLocalError"})
                       \ {wf_pc}

\* The same runs, with the interpreter going on as long as a statement is
\* left to execute.
SpecWFLive == WFInit /\ [][WFNext]_vars /\ WF_wf_pc(WFStep)

\* Runs over every price series and several strategies, on daily bars.
WFDataInit ==
    /\ LoopIdle
    /\ CacheIdle
    /\ RetIdle
    /\ MetIdle
    /\ BacktestIdle
    /\ StrategyInit
    /\ timeframe = MinutesPerDay
    /\ in_sample_period \in {2, 3}
    /\ out_of_sample_period = 2
    /\ start = 0
    /\ end = Days(DataSpanDays)
    /\ fixed_window \in {0, 1}
    /\ optimization = 1
    /\ min_trade = 0
    /\ spread \in 0..MaxSpread
    /\ op \in [0..DataSpanDays -> Prices]
    /\ sigtab \in [{1, 2} -> SignalRows(DataSpanDays)]
    /\ WFLocalsInit

SpecWFData == WFDataInit /\ [][WFNext]_vars

-----------------------------------------------------------------------------
(* The cache of derived series: the files of <path>/tmp that the i_*       *)
(* functions write and read, and the life of the directory in a process.   *)
(* A series is represented by what it was computed from: the function, its *)
(* arguments and the data read.  An artifact is a file: its content and    *)
(* whether joblib.load can read it.                                        *)

MaxCalls == 2        \* indicator calls made by one run
MaxPeriod == 2       \* periods requested: 1..MaxPeriod

Symbols == {"EURUSD"}
CacheTimeframes == {5, 60}
Shifts == {0, 1}
Periods == 1..MaxPeriod
Modes == {"backtest", "trade", "func"}

\* The calls a strategy makes: i_close and i_diff take no period.
Requests ==
    [name : {"i_close", "i_diff"}, symbol : Symbols,
     timeframe : CacheTimeframes, period : {0}, shift : Shifts]
    \cup [name : {"i_z_score", "i_hl_band"}, symbol : Symbols,
          timeframe : CacheTimeframes, period : Periods, shift : Shifts]

\* file_path: '/tmp/<name>_' + symbol + str(timeframe) + '_' + ... + '.pkl'.
\* Only i_z_score (like i_bandwalk) puts the period in the path; i_hl_band
\* takes a period and leaves it out.
file_path(r) ==
    IF r.name = "i_z_score"
    THEN <<r.name, r.symbol, r.timeframe, r.period, r.shift>>
    ELSE <<r.name, r.symbol, r.timeframe, r.shift>>

\* if self.environment is None
environment_ignored == TRUE
environment_is_None == environment = "None"

\* joblib.dump(value, file_path)
joblib_dump_nothing(store, path, value) == store
joblib_dump(store, path, value) ==
    [q \in DOMAIN store \cup {path} |->
        IF q = path THEN [ok |-> TRUE, value |-> value] ELSE store[q]]

\* The close of i_close, read from `data', shifted.
Close(r, data) ==
    [name |-> "i_close", symbol |-> r.symbol, timeframe |-> r.timeframe,
     period |-> 0, shift |-> r.shift, data |-> data]

\* The series a function derives from a close (close - close.shift(1),
\* close.rolling(window=period)...).
Derived(r, close) ==
    [name |-> r.name, symbol |-> close.symbol, timeframe |-> close.timeframe,
     period |-> r.period, shift |-> close.shift, data |-> close.data]

\* What a call did: the value returned (or that an exception left it), the
\* files afterwards, and whether it read a file, wrote one, ran its
\* computation, pulled the data from its source, met an unreadable file.
Outcome(result, store, raised, read, wrote, computed, fetched, corrupt) ==
    [result |-> result, store |-> store, raised |-> raised, read |-> read,
     wrote |-> wrote, computed |-> computed, fetched |-> fetched,
     corrupt |-> corrupt]

\* i_close (i_open, i_high, i_low and i_volume have the same shape).
i_close(r, store) ==
    LET path == file_path([r EXCEPT !.name = "i_close", !.period = 0])
    IN  IF environment_is_None
        THEN IF path \in DOMAIN store
             THEN IF store[path].ok
                  THEN Outcome(store[path].value, store, FALSE, TRUE, FALSE,
                               FALSE, FALSE, FALSE)
                  ELSE \* joblib.load raises
                       Outcome(Close(r, "raised"), store, TRUE, TRUE, FALSE,
                               FALSE, FALSE, TRUE)
             ELSE LET close == Close(r, "csv")
                  IN  Outcome(close, joblib_dump(store, path, close), FALSE,
                              FALSE, TRUE, TRUE, TRUE, FALSE)
        ELSE Outcome(Close(r, "oanda"), store, FALSE, FALSE, FALSE, TRUE,
                     TRUE, FALSE)

\* i_z_score, i_hl_band, i_diff (and i_bandwalk): load the file if this is a
\* backtest and the file exists, otherwise derive from i_close and, in a
\* backtest, dump.
i_derived(r, store) ==
    LET path == file_path(r)
    IN  IF environment_is_None /\ path \in DOMAIN store
        THEN IF store[path].ok
             THEN Outcome(store[path].value, store, FALSE, TRUE, FALSE,
                          FALSE, FALSE, FALSE)
             ELSE \* joblib.load raises
                  Outcome(Derived(r, Close(r, "raised")), store, TRUE, TRUE,
                          FALSE, FALSE, FALSE, TRUE)
        ELSE LET c == i_close(r, store)
                 v == Derived(r, c.result)
             IN  IF c.raised
                 THEN Outcome(v, c.store, TRUE, c.read, c.wrote, FALSE,
                              c.fetched, c.corrupt)
                 ELSE IF environment_is_None
                 THEN Outcome(v, joblib_dump(c.store, path, v), FALSE, c.read,
                              TRUE, TRUE, c.fetched, FALSE)
                 ELSE Outcome(v, c.store, FALSE, c.read, c.wrote, TRUE,
                              c.fetched, FALSE)

\* --mode func: the directory is removed if it is there, and created.
FuncSetup ==
    /\ run_pc = "main"
    /\ tmp_exists' = TRUE
    /\ tmp' = <<>>
    /\ run_pc' = "construct"
    /\ UNCHANGED <<mode, environment, calls, notCacheVars>>

\* ForexSystem.__init__: in a backtest the directory is removed if it is
\* there, and created.
Construct ==
    /\ run_pc = "construct"
    /\ environment' = IF mode = "trade" THEN "practice" ELSE "None"
    /\ IF environment_is_None'
       THEN /\ tmp_exists' = TRUE
            /\ tmp' = <<>>
       ELSE UNCHANGED <<tmp_exists, tmp>>
    /\ run_pc' = "running"
    /\ UNCHANGED <<mode, calls, notCacheVars>>

\* The state in which the call found the file of its own path.
Found(r, store) ==
    IF file_path(r) \notin DOMAIN store THEN "absent"
    ELSE IF store[file_path(r)].ok THEN "ok" ELSE "corrupt"

\* One call of an i_* function by the strategy (or by calc_ret).
IndicatorCall ==
    /\ run_pc = "running"
    /\ Len(calls) < MaxCalls
    /\ \E r \in Requests :
           LET o == IF r.name = "i_close" THEN i_close(r, tmp)
                    ELSE i_derived(r, tmp)
           IN  /\ tmp' = o.store
               /\ calls' = Append(calls,
                      [request |-> r, found |-> Found(r, tmp),
                       result |-> o.result, raised |-> o.raised,
                       read |-> o.read, wrote |-> o.wrote,
                       computed |-> o.computed, fetched |-> o.fetched,
                       corrupt |-> o.corrupt])
               /\ run_pc' = IF o.raised THEN "raised" ELSE "running"
    /\ UNCHANGED <<mode, environment, tmp_exists, notCacheVars>>

\* A file of the directory becomes unreadable (a partial write, a damaged
\* disk block): joblib.load will raise on it.
CorruptArtifact ==
    /\ run_pc = "running"
    /\ environment_is_None
    /\ \A q \in DOMAIN tmp : tmp[q].ok
    /\ \E q \in DOMAIN tmp : tmp' = [tmp EXCEPT ![q].ok = FALSE]
    /\ UNCHANGED <<mode, environment, run_pc, tmp_exists, calls, notCacheVars>>

\* The end of the run: --mode func removes the directory, --mode backtest
\* prints the time taken; --mode trade has no end.
EndRun ==
    /\ run_pc = "running"
    /\ mode # "trade"
    /\ IF mode = "func"
       THEN /\ tmp_exists' = FALSE
            /\ tmp' = <<>>
       ELSE UNCHANGED <<tmp_exists, tmp>>
    /\ run_pc' = "ended"
    /\ UNCHANGED <<mode, environment, calls, notCacheVars>>

\* The files an earlier process left: none, or one file of an earlier run
\* (whole or partial) computed from the history of that time.
Leftovers ==
    {<<>>} \cup
    { [q \in {file_path(r)} |->
          [ok |-> b, value |-> Derived(r, Close(r, "stale"))]] :
      r \in {x \in Requests : x.shift = 0 /\ x.timeframe = 5},
      b \in BOOLEAN }

CacheInit ==
    /\ LoopIdle
    /\ WFIdle
    /\ RetIdle
    /\ MetIdle
    /\ BacktestIdle
    /\ spread = 0
    /\ mode \in Modes
    /\ environment = "None"
    /\ run_pc = IF mode = "func" THEN "main" ELSE "construct"
    /\ tmp_exists \in BOOLEAN
    /\ tmp \in IF tmp_exists THEN Leftovers ELSE {<<>>}
    /\ calls = <<>>

CacheNext ==
    \/ FuncSetup
    \/ Construct
    \/ IndicatorCall
    \/ CorruptArtifact
    \/ EndRun

SpecCache == CacheInit /\ [][CacheNext]_vars

-----------------------------------------------------------------------------
(* calc_ret and calc_trades called on their own, for every price series    *)
(* (a price of 0 included), every signal and several windows.              *)

RetLastBar == 3      \* the history holds the bars 0..RetLastBar

RetPrices == {0} \cup Prices

\* calc_ret(symbol, timeframe, signal, spread, start, end)
CalcRet ==
    /\ ret_pc = "call"
    /\ cost_out' = [k \in {b \in DOMAIN arg_signal :
                              (b - 1) \in DOMAIN arg_signal}
                       |-> cost(arg_signal, k)]
    /\ ret_out' = calc_ret(op, arg_signal, arg_start, arg_end)
    /\ ret_pc' = "ret"
    /\ UNCHANGED <<arg_signal, arg_start, arg_end, trades_out, notRetVars>>

\* calc_trades(signal, start, end)
CalcTrades ==
    /\ ret_pc = "ret"
    /\ trades_out' = calc_trades(arg_signal, arg_start, arg_end)
    /\ ret_pc' = "done"
    /\ UNCHANGED <<arg_signal, arg_start, arg_end, cost_out, ret_out,
                   notRetVars>>

\* The callers pass the signal of a strategy, which covers the window (the
\* strategy cuts it to [start, end]) or the whole history.
RetInit ==
    /\ LoopIdle
    /\ CacheIdle
    /\ MetIdle
    /\ BacktestIdle
    /\ StrategyInit
    /\ timeframe = MinutesPerDay
    /\ in_sample_period = 0
    /\ out_of_sample_period = 0
    /\ fixed_window = 0
    /\ optimization = 0
    /\ min_trade = 0
    /\ start = 0
    /\ end = Days(RetLastBar)
    /\ WFLocalsInit
    /\ sigtab = <<>>
    /\ spread \in 0..MaxSpread
    /\ op \in [0..RetLastBar -> RetPrices]
    /\ \E first \in {0, 1}, last \in {RetLastBar - 1, RetLastBar} :
           /\ arg_start = Days(first)
           /\ arg_end = Days(last)
           /\ \E bars \in {first..last, 0..RetLastBar} :
                  arg_signal \in [bars -> Signals]
    /\ ret_pc = "call"
    /\ cost_out = <<>>
    /\ ret_out = <<>>
    /\ trades_out = 0

RetNext ==
    \/ CalcRet
    \/ CalcTrades

SpecRet == RetInit /\ [][RetNext]_vars

-----------------------------------------------------------------------------
(* calc_drawdowns, calc_durations, calc_kelly and calc_sharpe called on a  *)
(* return series.  The returns are given in halves (RetScale = 2): -1 is  *)
(* -50%, -2 is -100%, -4 is -200%.  With n returns the wealth              *)
(* 1 + cum_ret[i] is kept times 2^n, which makes it an integer.            *)

MaxRetLen == 3       \* the series hold 1..MaxRetLen returns

RetScale == 2
RetHalves == {-4, -2, -1, 0, 1, 2}

RECURSIVE Pow2(_)
Pow2(n) == IF n = 0 THEN 1 ELSE 2 * Pow2(n - 1)

\* (ret + 1.0).cumprod() at bar i, times 2^i.
RECURSIVE CumProd(_, _)
CumProd(ret, b) ==
    IF b = 0 THEN 1 ELSE CumProd(ret, b - 1) * (RetScale + ret[b])

\* 1.0 + cum_ret[i], times 2^Len(ret).
Wealth(ret, b) == CumProd(ret, b) * Pow2(Len(ret) - b)

\* 1.0 + high_watermark[0], times 2^Len(ret): high_watermark[0] = cum_ret[0]
FirstWatermarkFromZero(ret) ==
    IF Wealth(ret, 0) >= Wealth(ret, 1) THEN Wealth(ret, 0)
    ELSE Wealth(ret, 1)
FirstWatermark(ret) == Wealth(ret, 1)

\* 1.0 + high_watermark[i], times 2^Len(ret).
RECURSIVE high_watermark(_, _)
high_watermark(ret, b) ==
    IF b = 1 THEN FirstWatermark(ret)
    ELSE IF high_watermark(ret, b - 1) >= Wealth(ret, b)
         THEN high_watermark(ret, b - 1)
         ELSE Wealth(ret, b)

\* drawdown[i] as <<numerator, denominator>> with a positive denominator.
\* np.abs(1.0 + cum_ret[i]) < EPS holds for a wealth of 0 only; at the first
\* bar drawdown[i - 1] is drawdown[-1], the last element, which is still 0.
RECURSIVE drawdown(_, _)
drawdown(ret, b) ==
    LET W == Wealth(ret, b)
        H == high_watermark(ret, b)
    IN  IF W = 0 THEN (IF b = 1 THEN <<0, 1>> ELSE drawdown(ret, b - 1))
        ELSE IF W > 0 THEN <<H - W, W>>
        ELSE <<W - H, -W>>

\* x > y for two fractions with positive denominators.
FracGreater(x, y) == x[1] * y[2] > y[1] * x[2]

\* The second loop of calc_drawdowns, up to bar i.
RECURSIVE MaxDrawdown(_, _)
MaxDrawdown(ret, b) ==
    IF b = 1 THEN drawdown(ret, 1)
    ELSE IF FracGreater(drawdown(ret, b), MaxDrawdown(ret, b - 1))
         THEN drawdown(ret, b)
         ELSE MaxDrawdown(ret, b - 1)

\* drawdowns = calc_drawdowns(ret)
calc_drawdowns(ret) == MaxDrawdown(ret, Len(ret))

\* duration[i]: 0 where drawdown[i] == 0.0, else one more than before.
RECURSIVE duration(_, _)
duration(ret, b) ==
    IF b = 1 THEN drawdown(ret, 1)[1]
    ELSE IF drawdown(ret, b)[1] = 0 THEN 0
    ELSE duration(ret, b - 1) + 1

\* The third loop of calc_durations, up to bar i.
RECURSIVE MaxDuration(_, _)
MaxDuration(ret, b) ==
    IF b = 1 THEN duration(ret, 1)
    ELSE IF duration(ret, b) > MaxDuration(ret, b - 1) THEN duration(ret, b)
    ELSE MaxDuration(ret, b - 1)

\* durations = calc_durations(ret, timeframe):
\* int(durations / (1440 / timeframe))
calc_durations(ret, tf) == (MaxDuration(ret, Len(ret)) * tf) \div MinutesPerDay

\* kelly = calc_kelly(ret): mean / (std * std), which is
\* RetScale * S * (bars - 1) / V with S and V as in calc_sharpe; 0 when
\* std < EPS and NaN when std is NaN.
calc_kelly(ret) ==
    LET n == Len(ret)
        S == SumOver(ret, DOMAIN ret)
        Q == SumOver([k \in DOMAIN ret |-> ret[k] * ret[k]], DOMAIN ret)
        V == n * Q - S * S
    IN  IF n < 2 THEN NaN
        ELSE IF V = 0 THEN <<0, 1>>
        ELSE <<RetScale * S * (n - 1), V>>

CalcDrawdowns ==
    /\ met_pc = "drawdowns"
    /\ drawdowns_out' = calc_drawdowns(arg_ret)
    /\ met_pc' = "durations"
    /\ UNCHANGED <<arg_ret, durations_out, sharpe_out, kelly_out, notMetVars>>

CalcDurations ==
    /\ met_pc = "durations"
    /\ durations_out' = calc_durations(arg_ret, timeframe)
    /\ met_pc' = "kelly"
    /\ UNCHANGED <<arg_ret, drawdowns_out, sharpe_out, kelly_out, notMetVars>>

CalcKelly ==
    /\ met_pc = "kelly"
    /\ kelly_out' = calc_kelly(arg_ret)
    /\ met_pc' = "sharpe"
    /\ UNCHANGED <<arg_ret, drawdowns_out, durations_out, sharpe_out,
                   notMetVars>>

\* sharpe = calc_sharpe(ret, start, end)
CalcSharpe ==
    /\ met_pc = "sharpe"
    /\ IF ZeroYears(start, end)
       THEN \* bars / years raises ZeroDivisionError
            /\ met_pc' = "ZeroDivisionError"
            /\ UNCHANGED sharpe_out
       ELSE /\ sharpe_out' = calc_sharpe(arg_ret)
            /\ met_pc' = "done"
    /\ UNCHANGED <<arg_ret, drawdowns_out, durations_out, kelly_out,
                   notMetVars>>

\* Every series of 1..MaxRetLen returns, on either timeframe; the window
\* [start, end] runs from the first bar of the series to its last bar or to
\* the bar after it.
MetricsInit ==
    /\ LoopIdle
    /\ CacheIdle
    /\ RetIdle
    /\ BacktestIdle
    /\ StrategyInit
    /\ timeframe \in Timeframes
    /\ in_sample_period = 0
    /\ out_of_sample_period = 0
    /\ fixed_window = 0
    /\ optimization = 0
    /\ min_trade = 0
    /\ start = 0
    /\ \E n \in 1..MaxRetLen :
           /\ arg_ret \in [1..n -> RetHalves]
           /\ end \in {(n - 1) * timeframe, n * timeframe}
    /\ WFLocalsInit
    /\ op = <<>>
    /\ sigtab = <<>>
    /\ spread = 0
    /\ met_pc = "drawdowns"
    /\ drawdowns_out = <<0, 1>>
    /\ durations_out = 0
    /\ sharpe_out = <<0, 1>>
    /\ kelly_out = <<0, 1>>

MetricsNext ==
    \/ CalcDrawdowns
    \/ CalcDurations
    \/ CalcKelly
    \/ CalcSharpe

SpecMetrics == MetricsInit /\ [][MetricsNext]_vars

-----------------------------------------------------------------------------
(* ForexSystem.backtest, as __main__ calls it: start and end are dates.    *)

BtLastBar == 3       \* the history holds the bars 0..BtLastBar

\* PARAMETER of the strategy, which __main__ passes as parameter.
Supplied == 10

\* The end of the window in args=(..., start, end, spread, 1, min_trade).
SearchEndBeforeLastBar == end - timeframe
SearchEnd == end

\* if optimization == 1: parameter = optimize.brute(...) on [start, end].
BacktestOptimize ==
    /\ bt_pc = "optimize"
    /\ IF optimization = 0
       THEN /\ bt_pc' = "evaluate"
            /\ UNCHANGED <<parameter, Jout, evaluated>>
       ELSE IF Grid(rranges) = <<>>
       THEN \* brute has no point to evaluate
            /\ bt_pc' = "ValueError"
            /\ UNCHANGED <<parameter, Jout, evaluated>>
       ELSE IF ZeroYears(start, end)
       THEN \* calc_sharpe at the first point, after calc_signal and
            \* calc_ret: bars / years raises ZeroDivisionError
            /\ bt_pc' = "ZeroDivisionError"
            /\ evaluated' = TRUE
            /\ UNCHANGED <<parameter, Jout>>
       ELSE /\ Jout' = Objective(op, rranges, start, SearchEnd)
            /\ parameter' = Grid(rranges)[argmin(Jout')]
            /\ evaluated' = TRUE
            /\ bt_pc' = "evaluate"
    /\ UNCHANGED <<bt_report, notBtVars>>

\* calc_performance(parameter, ..., 0, min_trade) and the row of the report.
\* With no bar in the window the compiled loops of calc_drawdowns and
\* calc_durations return a value that was never assigned and the plot has
\* nothing to draw: the call ends in the report or in an error.
BacktestEvaluate ==
    /\ bt_pc = "evaluate"
    /\ evaluated' = TRUE
    /\ IF ZeroYears(start, end)
       THEN \* calc_sharpe: bars / years raises ZeroDivisionError
            /\ bt_pc' = "ZeroDivisionError"
            /\ UNCHANGED bt_report
       ELSE LET sig == calc_signal(parameter, start, end)
                ret == calc_ret(op, sig, start, end)
            IN  \/ /\ bt_report' = [start |-> start, end |-> end,
                                    trades |-> calc_trades(sig, start, end),
                                    sharpe |-> calc_sharpe(ret),
                                    parameter |-> parameter]
                   /\ bt_pc' = "done"
                \/ /\ DOMAIN ret = {}
                   /\ bt_pc' = "Error"
                   /\ UNCHANGED bt_report
    /\ UNCHANGED <<parameter, Jout, notBtVars>>

\* One parameter searched on slice(0, 10, 5) or on an empty range; daily
\* bars; end a day before start, on start, or BtLastBar days after it.
BacktestInit ==
    /\ LoopIdle
    /\ CacheIdle
    /\ RetIdle
    /\ MetIdle
    /\ timeframe = MinutesPerDay
    /\ in_sample_period = 0
    /\ out_of_sample_period = 0
    /\ fixed_window = 0
    /\ optimization \in {0, 1}
    /\ min_trade \in {0, DefaultMinTrade}
    /\ start = 0
    /\ end \in {-Days(1), 0, Days(BtLastBar)}
    /\ rranges \in {<<0, 10, 5>>, <<0, 0, 5>>}
    /\ parameter = Supplied
    /\ wf_pc = "off"
    /\ i = 0
    /\ start_train = 0
    /\ end_train = 0
    /\ start_test = 0
    /\ end_test = 0
    /\ report = <<>>
    /\ signal_all = <<>>
    /\ start_all = 0
    /\ end_all = 0
    /\ bound = {}
    /\ aggregate = <<>>
    /\ spread \in {0, MaxSpread}
    /\ op \in [0..BtLastBar -> Prices]
    /\ sigtab \in [{0, 5, 10} -> SignalRows(BtLastBar)]
    /\ bt_pc = "optimize"
    /\ Jout = <<>>
    /\ evaluated = FALSE
    /\ bt_report = <<>>

BacktestNext ==
    \/ BacktestOptimize
    \/ BacktestEvaluate

SpecBacktest == BacktestInit /\ [][BacktestNext]_vars

-----------------------------------------------------------------------------
(* Properties of ForexSystem.trade, checked under SpecLoop.                *)

\* A position that contradicts the signal of the bar being processed.
ExitDue == (pos = 1 /\ signal # 1) \/ (pos = -1 /\ signal # -1)

\* C1: every newest-bar timestamp the loop has observed and marked as
\* processed has had the signal function and the order management run
\* exactly once by the time the iteration is over (not zero times, not
\* twice).  The time of the feed never goes back, so a bar at or before
\* pre_history_time is never processed later.
C1_EachBarActedOnce ==
    pc = "poll" =>
        \A t \in Bars :
            (sigRuns[t] >= 1 /\ t <= pre_history_time) =>
                (sigRuns[t] = 1 /\ mgmtRuns[t] = 1)

\* C2: an order is opened only from a state in which the loop is flat, holds
\* no ticket and no order of the loop is open at the gateway (a reversal has
\* closed the old order and cleared the state earlier in the iteration), and
\* at most one order is open at any time.
C2_CloseBeforeOpen ==
    /\ [](Cardinality(openTrades) <= 1)
    /\ [][(openTrades' \ openTrades # {}) =>
              (pos = 0 /\ ticket = 0 /\ openTrades = {})]_vars

\* C2 witness: a reversal inside one iteration; the long order was closed and
\* the short one is the only open order.
C2_Witness ==
    /\ pc = "notify_entry"
    /\ closedThisIter
    /\ pos = -1
    /\ openTrades = {ticket}

\* C3: no exception ends the loop: control never leaves the loop, an
\* exception is followed by the handler and the handler by the next
\* iteration, and every reachable state has a successor.
C3_NeverTerminates ==
    /\ [](pc # "dead")
    /\ [](ENABLED LoopNext)
    /\ [][pc = "except" => pc' = "poll"]_vars

\* C3 witness: an exception raised while a position is held has been caught.
C3_Witness == pc = "except" /\ pos # 0

\* C4: a step opens an order only if the loop is flat, ask - bid is at most
\* the allowed spread and the signal is +1 or -1, and the side opened is the
\* side of the signal.
C4_OpenOnlyWhen ==
    [][((openTrades' \ openTrades # {}) \/ (pos' # pos /\ pos' # 0)) =>
           /\ pos = 0
           /\ ask - bid <= spread
           /\ signal \in {1, -1}
           /\ pos' = signal]_vars

\* C4 witness: a long position opened at exactly the allowed spread.
C4_Witness ==
    /\ pc = "notify_entry"
    /\ pos = 1
    /\ spread > 0
    /\ ask - bid = spread

\* C5: when the order management of a new bar finds a position that
\* contradicts the signal, the close is sent whatever ask - bid is: the step
\* either closes the order at the gateway or ends in the gateway's exception,
\* and control never passes the close branch with such a position.
C5_ExitNotGatedBySpread ==
    /\ [](pc = "open_check" => ~ExitDue)
    /\ [][(pc = "manage" /\ ExitDue) =>
              \/ pc' = "notify_exit" /\ ticket \notin openTrades'
              \/ pc' = "except"]_vars

\* C5 witness: a position closed while ask - bid exceeds the allowed spread.
C5_Witness ==
    /\ pc = "notify_exit"
    /\ closedThisIter
    /\ ask - bid > spread

-----------------------------------------------------------------------------
(* Properties of ForexSystem.walk_forward_test, checked under SpecWF and   *)
(* SpecWFData.                                                             *)

\* The end of the test window of iteration n, in both modes.
TestEndOf(n) ==
    start + Days(out_of_sample_period * n) + Days(in_sample_period)
        + Days(out_of_sample_period) - timeframe

\* C6: in every produced window the train window ends before the test window
\* starts and the test window does not end before it starts, and the test
\* window of every produced window ends before the next one starts.
C6_WindowsOrdered ==
    /\ \A j \in 1..Len(report) :
           /\ report[j].start_test <= report[j].end_test
           /\ report[j].end_train < report[j].start_test
    /\ \A j \in 1..(Len(report) - 1) :
           report[j].end_test < report[j + 1].start_test

\* C6 witness: two windows of an expanding run.
C6_Witness == Len(report) >= 2 /\ fixed_window = 0

\* C7: the test window of every produced window starts exactly one bar after
\* the previous one ends, and the concatenated out-of-sample signal holds
\* every bar from the first test_start to the last test_end once.
C7_TestWindowsContiguous ==
    /\ \A j \in 1..(Len(report) - 1) :
           report[j + 1].start_test = report[j].end_test + timeframe
    /\ Len(report) >= 1 =>
           DOMAIN signal_all =
               {k \in DOMAIN op :
                    /\ report[1].start_test <= BarTime(k)
                    /\ BarTime(k) <= report[Len(report)].end_test}

\* C7 witness: three windows of a fixed-window run.
C7_Witness == Len(report) >= 3 /\ fixed_window = 1

\* Bar k of the history opens after time t.
OpensAfter(k, t) == BarTime(k) > t

\* C8: the parameter chosen for a window is the same in every run whose
\* prices differ from this run's in one bar after train_end (and so, one bar
\* at a time, in every run whose prices agree up to train_end).
C8_NoLookAhead ==
    (wf_pc = "evaluate" /\ optimization = 1) =>
        \A k \in DOMAIN op : \A v \in Prices :
            OpensAfter(k, end_train) =>
                brute([op EXCEPT ![k] = v], rranges, start_train, OptimizeEnd)
                    = parameter

\* What does hold of the search: only the open of the first bar of the test
\* window reaches it; no later price does.
C8_LeakIsOneOpen ==
    (wf_pc = "evaluate" /\ optimization = 1) =>
        \A k \in DOMAIN op : \A v \in Prices :
            OpensAfter(k, start_test) =>
                brute([op EXCEPT ![k] = v], rranges, start_train, OptimizeEnd)
                    = parameter

\* C9: once the loop has ended with at least one produced window, the
\* aggregate is computed, from the first window's test_start to the last
\* window's test_end.
C9_AggregateComputed ==
    (wf_pc \in {"done", "UnboundLocalError"} /\ Len(report) >= 1) =>
        /\ wf_pc = "done"
        /\ aggregate.start_test = report[1].start_test
        /\ aggregate.end_test = report[Len(report)].end_test

\* C10: iteration n goes on to its window only if its test_end <= end, the
\* loop ends at the first n whose test_end > end, no produced window has
\* test_end > end, and the fixed run of 10 days in sample and 5 days out of
\* sample over 20 days produces exactly 2 windows.
C10_StopsAtEnd ==
    /\ \A j \in 1..Len(report) :
           /\ report[j].end_test = TestEndOf(j - 1)
           /\ report[j].end_test <= end
    /\ wf_pc \in {"window", "optimize", "evaluate", "aggregate", "done"} =>
           Len(report) = i
    /\ wf_pc \in {"optimize", "evaluate"} => TestEndOf(i) <= end
    /\ wf_pc \in {"aggregate", "done"} => TestEndOf(Len(report)) > end
    /\ (/\ wf_pc \in {"aggregate", "done", "UnboundLocalError"}
        /\ in_sample_period = 10
        /\ out_of_sample_period = 5
        /\ fixed_window = 1
        /\ end - start = Days(20)) => Len(report) = 2

\* C10 witness: the run of the scenario has ended with its 2 windows.
C10_Witness ==
    /\ wf_pc = "done"
    /\ in_sample_period = 10
    /\ out_of_sample_period = 5
    /\ fixed_window = 1
    /\ end - start = Days(20)
    /\ Len(report) = 2

\* C11: when a walk-forward run has computed its aggregate, the trade count
\* of the aggregate (calc_trades over the concatenated out-of-sample signal)
\* is the sum of the trade counts written for the test windows.
C11_AggregateTradesIsSum ==
    wf_pc = "done" =>
        aggregate.trades =
            SumOver([j \in 1..Len(report) |-> report[j].trades],
                    1..Len(report))

-----------------------------------------------------------------------------
(* Properties of the cache, checked under SpecCache.                       *)

\* What the computation produces for a request from the history of the run.
Computes(r) ==
    IF r.name = "i_close" THEN Close(r, "csv") ELSE Derived(r, Close(r, "csv"))

\* C12: in an evaluation run (environment None), of two calls with the same
\* name, symbol, timeframe and parameters, the second, finding the file
\* readable, returns the same result as the first, reads the stored file,
\* and neither runs the computation nor reads the history again.
C12_SecondCallLoads ==
    environment_is_None =>
        \A a \in 1..Len(calls) : \A b \in 1..Len(calls) :
            (/\ a < b
             /\ calls[a].request = calls[b].request
             /\ ~calls[a].raised
             /\ ~calls[b].corrupt) =>
                /\ ~calls[b].raised
                /\ calls[b].result = calls[a].result
                /\ calls[b].read
                /\ ~calls[b].computed
                /\ ~calls[b].fetched
                /\ ~calls[b].wrote

\* C12 witness: i_z_score called twice with one period; the first call
\* computed and stored, the second loaded.
C12_Witness ==
    /\ Len(calls) = 2
    /\ calls[1].request = calls[2].request
    /\ calls[1].request.name = "i_z_score"
    /\ calls[1].computed
    /\ calls[1].wrote
    /\ calls[2].read

\* C13: a call that loads the file of its path returns what its computation
\* produces for the symbol, timeframe and parameters it was called with.
C13_HitReturnsRequested ==
    \A n \in 1..Len(calls) :
        (environment_is_None /\ calls[n].found = "ok") =>
            calls[n].result = Computes(calls[n].request)

\* C14: with an environment set, no call reads or writes a file, every call
\* runs its computation on data fetched by that call, and no step of the
\* process (the constructor included) changes the directory.
C14_LiveBypassesCache ==
    /\ [](~environment_is_None =>
            \A n \in 1..Len(calls) :
                /\ ~calls[n].read
                /\ ~calls[n].wrote
                /\ calls[n].computed
                /\ calls[n].fetched
                /\ calls[n].result.data = "oanda")
    /\ [][mode = "trade" => UNCHANGED <<tmp_exists, tmp>>]_vars

\* C14 witness: a live process has called a function whose file an earlier
\* run left in the directory.
C14_Witness ==
    /\ mode = "trade"
    /\ run_pc = "running"
    /\ Len(calls) >= 1
    /\ calls[1].found = "ok"

\* C15: the first call of an evaluation run finds no file, and when the run
\* has ended the directory is gone with all its files.
C15_CacheScopedToRun ==
    /\ (environment_is_None /\ Len(calls) >= 1) => calls[1].found = "absent"
    /\ run_pc = "ended" => (~tmp_exists /\ tmp = <<>>)

\* C16: a call that meets an unreadable file raises nothing, recomputes,
\* stores and returns what the computation produces.
C16_CorruptIsMiss ==
    \A n \in 1..Len(calls) :
        calls[n].corrupt =>
            /\ ~calls[n].raised
            /\ calls[n].computed
            /\ calls[n].wrote
            /\ calls[n].result = Computes(calls[n].request)

-----------------------------------------------------------------------------
(* Properties of calc_ret and calc_trades, checked under SpecRet.          *)

Max(a, b) == IF a > b THEN a ELSE b

\* The bars of the signal passed that have a previous bar.
BarsWithPrevious == {k \in DOMAIN arg_signal : (k - 1) \in DOMAIN arg_signal}

\* C17: the cost of every bar is non-negative, and the total cost is the
\* spread times the sum of max(0, S_t - S_{t-1}) over the bars that end long
\* (S_t > 0) plus the spread times the sum of max(0, S_{t-1} - S_t) over the
\* bars that end short (S_t < 0), over the bars that have a previous bar.
C17_CostIsSpreadTimesAdds ==
    ret_pc \in {"ret", "done"} =>
        /\ \A k \in DOMAIN cost_out : cost_out[k] >= 0
        /\ DOMAIN cost_out = BarsWithPrevious
        /\ SumOver(cost_out, DOMAIN cost_out) =
               spread * SumOver([k \in BarsWithPrevious |->
                            IF arg_signal[k] > 0
                            THEN Max(0, arg_signal[k] - arg_signal[k - 1])
                            ELSE 0], BarsWithPrevious)
               + spread * SumOver([k \in BarsWithPrevious |->
                              IF arg_signal[k] < 0
                              THEN Max(0, arg_signal[k - 1] - arg_signal[k])
                              ELSE 0], BarsWithPrevious)

\* C17 witness: a charged spread, a long entry, a short entry and an exit.
C17_Witness ==
    /\ ret_pc = "ret"
    /\ spread > 0
    /\ \E k \in BarsWithPrevious :
           arg_signal[k] = 1 /\ arg_signal[k - 1] = 0
    /\ \E k \in BarsWithPrevious :
           arg_signal[k] = -1 /\ arg_signal[k - 1] = 0
    /\ \E k \in BarsWithPrevious :
           arg_signal[k] = 0 /\ arg_signal[k - 1] # 0

\* The exposure bar k adds: the growth of the long part of the signal plus
\* the growth of its short part.
AddedExposure(sig, k) ==
    Max(0, Max(sig[k], 0) - Max(sig[k - 1], 0))
    + Max(0, Max(-sig[k], 0) - Max(-sig[k - 1], 0))

\* C18: the cost of every bar is the spread times the exposure the bar adds:
\* nothing for a bar that reduces or closes a position, one unit for a
\* reversal between -1 and +1.
C18_CostOnlyForAddedExposure ==
    ret_pc \in {"ret", "done"} =>
        \A k \in DOMAIN cost_out :
            cost_out[k] = spread * AddedExposure(arg_signal, k)

\* What does hold of the cost: a bar that is not a reversal is charged for
\* the exposure it adds, and a bar where |signal| shrinks is free.
C18_NoReversalCost ==
    ret_pc \in {"ret", "done"} =>
        \A k \in DOMAIN cost_out :
            arg_signal[k] * arg_signal[k - 1] >= 0 =>
                cost_out[k] = spread * AddedExposure(arg_signal, k)

\* The return of the claim at bar k with cost c, times PriceScale.
ClaimedRet(k, c) ==
    ((op[k + 1] - op[k]) * arg_signal[k] - c) * (PriceScale \div op[k])

\* C19: every bar of the returned series that has a next bar (and a signal
\* and a non-zero open) carries ((open_{t+1} - open_t) * signal_t - cost_t)
\* / open_t; where the signal has no previous bar, cost_t is taken as 0 or as
\* the cost of entering signal_t from flat, whichever fits.
C19_RetIsFormula ==
    ret_pc \in {"ret", "done"} =>
        \A k \in DOMAIN ret_out :
            (HasNextOpen(op, k) /\ k \in DOMAIN arg_signal /\ op[k] # 0) =>
                IF k \in BarsWithPrevious
                THEN ret_out[k] = ClaimedRet(k, cost_out[k])
                ELSE \/ ret_out[k] = ClaimedRet(k, 0)
                     \/ ret_out[k] = ClaimedRet(k, spread * Abs(arg_signal[k]))

\* What does hold of the returns: the formula at every bar whose signal has
\* a previous bar, and no dependence on a price after open_{t+1}.
C19_HoldsWithPrevious ==
    ret_pc \in {"ret", "done"} =>
        \A k \in DOMAIN ret_out :
            /\ (HasNextOpen(op, k) /\ k \in BarsWithPrevious /\ op[k] # 0) =>
                   ret_out[k] = ClaimedRet(k, cost_out[k])
            /\ \A j \in DOMAIN op : \A v \in RetPrices :
                   j > k + 1 =>
                       calc_ret([op EXCEPT ![j] = v], arg_signal, arg_start,
                                arg_end)[k] = ret_out[k]

BarsInWindow ==
    {k \in DOMAIN arg_signal :
         arg_start <= BarTime(k) /\ BarTime(k) <= arg_end}

\* C21: the trade count is a non-negative integer, and the cost of calc_ret
\* summed over the bars of [start, end] (the first bar of the signal has no
\* cost) is the spread times the trade count of [start, end].
C21_CostIsSpreadTimesTrades ==
    ret_pc = "done" =>
        /\ trades_out \in Nat
        /\ SumOver(cost_out, DOMAIN cost_out \cap BarsInWindow)
               = spread * trades_out

\* C21 witness: a charged spread, trades inside the window and a trade of
\* the signal outside it.
C21_Witness ==
    /\ ret_pc = "done"
    /\ spread > 0
    /\ trades_out >= 2
    /\ \E k \in BarsWithPrevious \ BarsInWindow : cost_out[k] > 0

-----------------------------------------------------------------------------
(* Properties of the metrics, checked under SpecMetrics.                   *)

\* The wealth never falls from one bar of the series to the next.
NonDecreasingWealth(ret) ==
    \A b \in 2..Len(ret) : Wealth(ret, b) >= Wealth(ret, b - 1)

\* C22: the maximum drawdown of every non-empty return series is at least
\* 0, and it is exactly 0 for every series whose cumulative wealth never
\* decreases.
C22_DrawdownNonNegative ==
    met_pc \notin {"off", "drawdowns"} =>
        /\ drawdowns_out[1] >= 0
        /\ NonDecreasingWealth(arg_ret) => drawdowns_out[1] = 0

C22_Witness ==
    /\ met_pc = "done"
    /\ Len(arg_ret) = MaxRetLen
    /\ NonDecreasingWealth(arg_ret)
    /\ Wealth(arg_ret, 1) < Wealth(arg_ret, 0)
    /\ Wealth(arg_ret, MaxRetLen) > Wealth(arg_ret, 1)
    /\ drawdowns_out = <<0, Wealth(arg_ret, MaxRetLen)>>

\* C23: for every return series, one with bar returns of -100% or less
\* included, the maximum drawdown duration is 0 whenever the maximum
\* drawdown is 0.
C23_NoDurationWithoutDrawdown ==
    (met_pc \notin {"off", "drawdowns", "durations"}
         /\ drawdowns_out[1] = 0)
        => durations_out = 0

\* Without a return below -100% the wealth stays at or above 0 and C23 holds.
C23_HoldsForNonNegativeWealth ==
    (met_pc \notin {"off", "drawdowns", "durations"}
         /\ \A b \in DOMAIN arg_ret : arg_ret[b] >= -RetScale
         /\ drawdowns_out[1] = 0)
        => durations_out = 0

\* The return series is constant.
ConstantSeries(ret) == \A a, b \in DOMAIN ret : ret[a] = ret[b]

\* C24: for every constant return series of any length >= 1 Sharpe and
\* Kelly are exactly 0, and neither call ends in an error or yields a value
\* that is not a number.
C24_ConstantSeriesGivesZero ==
    ConstantSeries(arg_ret) =>
        /\ met_pc # "ZeroDivisionError"
        /\ met_pc \in {"sharpe", "done"} => kelly_out = <<0, 1>>
        /\ met_pc = "done" => sharpe_out = <<0, 1>>

\* With two returns or more and end after start, C24 holds.
C24_HoldsFromTwoReturns ==
    (ConstantSeries(arg_ret) /\ Len(arg_ret) >= 2 /\ ~ZeroYears(start, end)) =>
        /\ met_pc # "ZeroDivisionError"
        /\ met_pc \in {"sharpe", "done"} => kelly_out = <<0, 1>>
        /\ met_pc = "done" => sharpe_out = <<0, 1>>

-----------------------------------------------------------------------------
(* Properties of ForexSystem.backtest, checked under SpecBacktest.         *)

\* The search of the backtest has returned.
Searched == optimization = 1 /\ bt_pc \in {"evaluate", "done"}

\* The fitness of parameter p on the window of the backtest.
FitnessOf(p) == Fitness(op, p, start, end)

\* C25: the search evaluates every point of the grid and returns a point
\* whose fitness no other point of the grid exceeds; of the points that tie
\* for the maximum it returns the first in the order of enumeration.
C25_ReturnsFirstMaximum ==
    Searched =>
        LET g == Grid(rranges)
        IN  /\ DOMAIN Jout = DOMAIN g
            /\ \E j \in DOMAIN g :
                   /\ parameter = g[j]
                   /\ \A m \in DOMAIN g :
                          ~SharpeLess(FitnessOf(g[j]), FitnessOf(g[m]))
                   /\ \A m \in 1..(j - 1) :
                          SharpeLess(FitnessOf(g[m]), FitnessOf(g[j]))

C25_Witness ==
    /\ Searched
    /\ parameter = Grid(rranges)[1]
    /\ FitnessOf(0) # NaN
    /\ FitnessOf(0)[1] > 0
    /\ ~SharpeLess(FitnessOf(0), FitnessOf(5))
    /\ ~SharpeLess(FitnessOf(5), FitnessOf(0))

\* The objective the statement gives for parameter p: -sharpe when
\* trade_count / years >= min_trade, with years the days of the window
\* divided by 365, and 0 otherwise.
ClaimedObjective(p) ==
    LET sig == calc_signal(p, start, end)
        trade_count == calc_trades(sig, start, end)
        days == (end - start) \div MinutesPerDay
        sharpe == calc_sharpe(calc_ret(op, sig, start, end))
    IN  IF (days > 0 /\ trade_count * DaysPerYear >= min_trade * days)
           \/ (days < 0 /\ trade_count * DaysPerYear <= min_trade * days)
        THEN Neg(sharpe)
        ELSE <<0, 1>>

\* C26: the objective of a grid point is -sharpe when trade_count / years
\* >= min_trade and exactly 0 when it is below, with years the length of
\* the window in days divided by 365.
C26_ObjectiveIsFlooredSharpe ==
    Searched =>
        \A j \in DOMAIN Jout : Jout[j] = ClaimedObjective(Grid(rranges)[j])

C26_Witness ==
    /\ Searched
    /\ min_trade > 0
    /\ end > start
    /\ \E j, m \in DOMAIN Jout :
           /\ Jout[j] = <<0, 1>>
           /\ calc_sharpe(calc_ret(op, calc_signal(Grid(rranges)[j], start,
                                                   end), start, end))[1] > 0
           /\ Jout[m][1] < 0

\* The trade frequency of parameter p reaches the floor.
MeetsFloor(p) ==
    FloorMet(calc_trades(calc_signal(p, start, end), start, end), start, end)

\* C27: no grid point that meets the frequency floor has a lower fitness
\* than one that fails it, so the search never returns a point that fails
\* the floor when some point of the grid meets it.
C27_FailingPointNeverWins ==
    Searched =>
        LET g == Grid(rranges)
        IN  /\ \A j, m \in DOMAIN g :
                   (MeetsFloor(g[j]) /\ ~MeetsFloor(g[m]))
                       => ~SharpeLess(FitnessOf(g[j]), FitnessOf(g[m]))
            /\ (\E j \in DOMAIN g : MeetsFloor(g[j])) => MeetsFloor(parameter)

\* The candidates of the search.
Candidates == {Grid(rranges)[j] : j \in DOMAIN Grid(rranges)}

\* C28: the range (0, 10, 5) yields exactly the candidates 0, 5 and 10, and
\* the search returns the one of the highest Sharpe ratio among the three,
\* the smallest of them on a tie.
C28_StopIsIncluded ==
    (Searched /\ rranges = <<0, 10, 5>>) =>
        /\ Candidates = {0, 5, 10}
        /\ \A p \in {0, 5, 10} :
               /\ ~SharpeLess(FitnessOf(parameter), FitnessOf(p))
               /\ p < parameter =>
                      SharpeLess(FitnessOf(p), FitnessOf(parameter))

\* What holds instead: the stop is left out.
C28_StopIsExcluded ==
    (Searched /\ rranges = <<0, 10, 5>>) => Candidates = {0, 5}

\* The window or the range of the run is malformed.
Malformed == end <= start \/ Grid(rranges) = <<>>

\* C29: a run whose end is not after its start, or whose parameter range is
\* empty, ends in an error before any signal is evaluated and before any
\* result is written.
C29_MalformedIsRejectedFirst ==
    Malformed =>
        /\ ~evaluated
        /\ bt_report = <<>>
        /\ bt_pc \in {"optimize", "ValueError", "ZeroDivisionError"}

-----------------------------------------------------------------------------
(* The snapshot of ForexSystem.trade, checked under SpecLoop.              *)

\* C30: every iteration of the loop that completes without an exception
\* prints the position snapshot, whether or not an order was sent and
\* whether or not a new bar was processed: the loop comes back to the top
\* from the snapshot or from the except clause only.
C30_SnapshotEveryIteration ==
    [][(pc' = "poll" /\ pc # "except") => pc = "snapshot"]_vars

\* What holds instead: an iteration whose tick moved prints the snapshot.
C30_SnapshotWhenTickMoved ==
    [][(pc' = "poll" /\ pc \notin {"except", "poll"}) => pc = "snapshot"]_vars

-----------------------------------------------------------------------------
(* The windows and the end of the walk-forward test, checked under SpecWF  *)
(* and SpecWFLive.                                                         *)

\* The window the statement gives for iteration n.
ClaimedWindow(n) ==
    LET bar == timeframe
        oos == Days(out_of_sample_period)
        ins == Days(in_sample_period)
        train_start == IF fixed_window = 1 THEN start + n * oos ELSE start
        train_end == IF fixed_window = 1
                     THEN train_start + ins - bar
                     ELSE start + n * oos + ins - bar
        test_start == train_end + bar
    IN  <<train_start, train_end, test_start, test_start + oos - bar>>

\* C31: the window of every iteration follows the formula of its mode: the
\* train window slides by out_of_sample_period with a constant length in
\* fixed mode and grows from `start' in expanding mode; the test window
\* starts one bar after the train window ends and spans
\* out_of_sample_period.
C31_WindowFollowsFormula ==
    /\ \A j \in 1..Len(report) :
           <<report[j].start_train, report[j].end_train,
             report[j].start_test, report[j].end_test>> = ClaimedWindow(j - 1)
    /\ wf_pc \in {"optimize", "evaluate"} =>
           <<start_train, end_train, start_test, end_test>> = ClaimedWindow(i)

C31_Witness ==
    /\ Len(report) >= 2
    /\ fixed_window = 0
    /\ wf_pc = "evaluate"
    /\ i = 2
    /\ start_train = start
    /\ end_train > report[2].end_train

\* C32: the loop ends for every span and every out_of_sample_period of a
\* day or more: an iteration whose test window ends after `end' is reached
\* and the aggregate step runs.
C32_ReachesAggregate == <>(wf_pc = "aggregate")

\* What holds instead: the loop ends, at the aggregate step or in the
\* ZeroDivisionError of calc_sharpe.
C32_LoopEnds == <>(wf_pc \in {"aggregate", "ZeroDivisionError"})

-----------------------------------------------------------------------------
(* The state of ForexSystem.trade, checked under SpecLoop.                 *)

\* C33: in every reachable state of the loop the position is flat, long or
\* short and a ticket is held if and only if the position is not flat; the
\* loop has at most one order open.
C33_TicketIffPosition ==
    /\ pos \in {-1, 0, 1}
    /\ ticket # 0 <=> pos # 0
    /\ Cardinality(openTrades) <= 1

C33_Witness ==
    /\ pc = "snapshot"
    /\ closedThisIter
    /\ pos = -1
    /\ ticket # 0

\* C34: after every iteration, one ended by a caught exception included,
\* the position is long or short if and only if the order the loop opened
\* is still open at the gateway.
C34_PositionIffOrderOpen ==
    pc = "poll" => (pos # 0 <=> ticket \in openTrades)

\* Without the EA file and the mail nothing can fail between the close and
\* the clearing of the state, and C34 holds.
C34_HoldsWithoutNotification ==
    (pc = "poll" /\ ea = 0 /\ mail = 0) =>
        (pos # 0 <=> ticket \in openTrades)

\* C35: an iteration ended by a caught exception leaves pre_bid, pre_ask and
\* pre_history_time as they were at its top, so that the next iteration
\* sees the same tick and the same bar as new.
C35_AbortKeepsState == pc = "except" => preKept

\* What holds instead: an exception raised by the fetch of the quote leaves
\* the three as they were.
C35_FetchFailureKeepsState ==
    [][(pc = "poll" /\ pc' = "except") =>
           UNCHANGED <<pre_bid, pre_ask, pre_history_time>>]_vars

\* The fields of the state of the loop, with what the gateway and the
\* strategy have been asked to do.
ExecutionState ==
    <<pre_bid, pre_ask, pre_history_time, pos, ticket, openTrades, feedTime,
      sigRuns, mgmtRuns>>

\* C36: an iteration whose bid and ask are both within the tolerance of
\* the values of the previous iteration changes nothing (no bars fetched,
\* no signal, no order, the state as it was); one in which either differs
\* by the tolerance or more updates pre_bid and pre_ask and proceeds.
C36_SkipsWithinToleranceOfPrevious ==
    [][(pc = "poll" /\ pc' # "except") =>
           IF Abs(bid' - bid) < EPS /\ Abs(ask' - ask) < EPS
           THEN pc' = "poll" /\ UNCHANGED ExecutionState
           ELSE pre_bid' = bid' /\ pre_ask' = ask' /\ pc' = "history"]_vars

\* What holds instead: the tolerance is measured from pre_bid and pre_ask,
\* the quote of the last iteration whose tick moved.
C36_SkipsWithinToleranceOfLastMoved ==
    [][(pc = "poll" /\ pc' # "except") =>
           IF Abs(bid' - pre_bid) < EPS /\ Abs(ask' - pre_ask) < EPS
           THEN pc' = "poll" /\ UNCHANGED ExecutionState
           ELSE pre_bid' = bid' /\ pre_ask' = ask' /\ pc' = "history"]_vars

-----------------------------------------------------------------------------
(* ForexSystem.backtest, checked under SpecBacktest.                       *)

\* The row of the report for a parameter evaluated on [start, end].
ReportFor(p) ==
    LET sig == calc_signal(p, start, end)
    IN  [start |-> start, end |-> end,
         trades |-> calc_trades(sig, start, end),
         sharpe |-> calc_sharpe(calc_ret(op, sig, start, end)),
         parameter |-> p]

\* C37: a backtest with optimization set searches the grid on exactly
\* [start, end] and reports the performance of the parameter the search
\* returns; one without it searches nothing and reports the performance of
\* the parameter supplied.
C37_SearchesEvaluationWindow ==
    bt_pc = "done" =>
        IF optimization = 1
        THEN /\ Jout = Objective(op, rranges, start, end)
             /\ parameter = brute(op, rranges, start, end)
             /\ bt_report = ReportFor(parameter)
        ELSE /\ Jout = <<>>
             /\ parameter = Supplied
             /\ bt_report = ReportFor(Supplied)

\* C37 witness: a search whose two points score differently, which returns
\* a parameter other than the supplied one, and whose report shows trades.
C37_Witness ==
    /\ bt_pc = "done"
    /\ optimization = 1
    /\ Len(Jout) = 2
    /\ Jout[1] # Jout[2]
    /\ parameter # Supplied
    /\ bt_report.trades >= 1

-----------------------------------------------------------------------------
(* The first bar of a signal, checked under SpecRet.                       *)

FirstSignalBar == CHOOSE f \in DOMAIN arg_signal :
                      \A k \in DOMAIN arg_signal : f <= k

\* C38: the first bar of the signal passed carries a return of 0 and adds
\* nothing to the trade count, whatever the signal at that bar: the count
\* is the turnover of the other bars of the window.
C38_FirstBarContributesNothing ==
    ret_pc = "done" =>
        LET others == BarsInWindow \ {FirstSignalBar}
        IN  /\ FirstSignalBar \in DOMAIN ret_out => ret_out[FirstSignalBar] = 0
            /\ others \subseteq BarsWithPrevious
            /\ trades_out =
                   SumOver([k \in others |-> Turnover(arg_signal, k)], others)

\* C38 witness: a position held at the first bar of a signal cut to the
\* window, over a move of the open, and an entry counted later.
C38_Witness ==
    /\ ret_pc = "done"
    /\ FirstSignalBar \in DOMAIN ret_out
    /\ BarTime(FirstSignalBar) = arg_start
    /\ arg_signal[FirstSignalBar] # 0
    /\ op[FirstSignalBar] # 0
    /\ op[FirstSignalBar + 1] # op[FirstSignalBar]
    /\ trades_out >= 1

=============================================================================
